---- MODULE Spec2Model ----
(***************************************************************************)
(* Connection lifecycle and retry loop of MqttClient                       *)
(* (src/src/Mqtt/MqttClient.ts).                                           *)
(*                                                                         *)
(* One step of the model is one JavaScript task: an application call, the  *)
(* delivery of one transport event to the session's listeners, the firing  *)
(* of the retry timer, or the continuation of an `await` on the reconnect  *)
(* interceptor.  A task runs to completion; an `await` on a value that is  *)
(* not a pending promise (no interceptor registered) resumes in a          *)
(* microtask of the same task, so the continuation belongs to the same     *)
(* step.                                                                   *)
(*                                                                         *)
(* Spec is the connection of a session (connect, disconnect, the retry     *)
(* loop, the event handlers); SubscriptionSpec is its subscriptions and    *)
(* Event Bus registrations (subscribe, the subscription handles, remove).  *)
(* The two parts share no field of the session.                            *)
(***************************************************************************)
EXTENDS Integers, Sequences, FiniteSets, Bags, TLC

VARIABLES
    options,                    \* this.options (the fields the retry loop reads, and username)
    autoReconnect,              \* options?.autoReconnect as read by the constructor
    connectionStatus,           \* this.connectionStatus
    currentRetryCount,          \* this.currentRetryCount
    mqtt5DisconnectReasonCode,  \* this.mqtt5DisconnectReasonCode
    retryTimer,                 \* this.retryTimer: the handle stored last (0: undefined)
    pendingTimers,              \* handles of timers scheduled, not fired, not cleared
    onReconnectIntercepter,     \* whether setOnReconnectIntercepter was called
    waits,                      \* bag of interceptor promises awaited and not yet resolved
    nativeStatus,               \* what MqttJSIModule.getConnectionStatusMqtt returns
    events,                     \* events emitted by the transport, not yet delivered
    last,                       \* what the last step did (see Last)
    appLast,                    \* history: the application's last connect()/disconnect() call
    everConfirmed,              \* history: the transport has confirmed a connection
    connectedHandled,           \* history: a CONNECTED event was handled, no connect() call since
    lastDisconnectReason,       \* history: reason code of the last disconnect event handled since the last CONNECTED event
    scheduled,                  \* history: delays of the timers scheduled since the last connect() call
    chainConnects,              \* history: connectMqtt invocations since the last connect() call
    tag,                        \* this.tag
    listeners,                  \* the Event Bus registrations made by this session
    handles,                    \* the handles subscribe() returned whose remove() was not called
    removed,                    \* remove() was called
    eventIds,                   \* history: the event identifiers subscribe() generated, in order
    subLast                     \* what the last subscription step did (see SubStep)

vars == <<options, autoReconnect, connectionStatus, currentRetryCount,
          mqtt5DisconnectReasonCode, retryTimer, pendingTimers,
          onReconnectIntercepter, waits, nativeStatus, events,
          last, appLast, everConfirmed, connectedHandled,
          lastDisconnectReason, scheduled, chainConnects,
          tag, listeners, handles, removed, eventIds, subLast>>

\* the fields of the session and of the transport that connect(), the retry
\* loop and the event handlers work on
lifecycleVars ==
    <<options, autoReconnect, connectionStatus, currentRetryCount,
      mqtt5DisconnectReasonCode, retryTimer, pendingTimers,
      onReconnectIntercepter, waits, nativeStatus, events,
      last, appLast, everConfirmed, connectedHandled,
      lastDisconnectReason, scheduled, chainConnects>>

\* what subscribe(), the subscription handles and remove() work on
subscriptionVars == <<tag, listeners, handles, removed, eventIds, subLast>>

-----------------------------------------------------------------------------
(* Bounds *)

MaxRetryCount == 3
MaxEvents == 2
MaxWaits == 1
MaxTimerHandles == 3
MaxSubscribes == 3

-----------------------------------------------------------------------------
(* Values *)

DISCONNECTED == "disconnected"
CONNECTING == "connecting"
CONNECTED == "connected"

NoReason == "undefined"
ReasonCodes == {"X"}
TransportReasons == ReasonCodes

Absent == "<absent>"
KeepRetryCount == 0 - 1
Usernames == {"u0", "u1"}

NoOptions == [retryCount |-> KeepRetryCount, username |-> Absent]
ConnectOverrides == {NoOptions, [retryCount |-> KeepRetryCount, username |-> "u0"]}
InterceptorResults == {NoOptions, [retryCount |-> KeepRetryCount, username |-> "u1"]}

NotInvoked == "-"

\* an option the application never set (keepAlive, cleanSession: the value, if
\* set, is the set's only element)
Unset == {}

\* how the application's disconnect handlers behave: they return, throw when
\* first invoked for an event, or throw whenever they are invoked
Throws == {"never", "first", "always"}

NoArgs == [keepAlive |-> 0, username |-> "", password |-> "", cleanSession |-> FALSE]
NoCall == [connects |-> 0, cleared |-> FALSE, args |-> NoArgs]

\* what one task did: the connectMqtt invocation and its arguments, the
\* clearTimeout of a pending timer, and the application callbacks invoked for a
\* disconnect event
Last(op, r, dtype) ==
    [op |-> op, connectMqtt |-> r.connects, clearedTimer |-> r.cleared,
     args |-> r.args, disconnectType |-> dtype, failure |-> FALSE,
     calls |-> 0, propagated |-> FALSE]
Idle(op) == Last(op, NoCall, NotInvoked)

Min2(a, b) == IF a < b THEN a ELSE b

RECURSIVE Pow2(_)
Pow2(n) == IF n <= 0 THEN 1 ELSE 2 * Pow2(n - 1)

-----------------------------------------------------------------------------
(* Backoff Calculator (MqttClient.utils, imported at MqttClient.ts:13).     *)
(* computeDelay is min(cap, base * 2^(attempt-1)); an attempt <= 0 counts   *)
(* as attempt 1; a cap or base <= 0 yields 0.  With jitter the result is    *)
(* any value of [0, delay], represented by its two ends.                    *)

computeDelay(base, attempt, cap) ==
    IF cap <= 0 \/ base <= 0
    THEN 0
    ELSE Min2(cap, base * Pow2((IF attempt <= 0 THEN 1 ELSE attempt) - 1))

getMqttBackoffTime(base, attempt, cap, jitter) ==
    IF jitter
    THEN {0, computeDelay(base, attempt, cap)}
    ELSE {computeDelay(base, attempt, cap)}

(* Transport collaborator (MqttJSIModule): the status its status query      *)
(* reports after connectMqtt.                                               *)
connectMqtt(ns) == IF ns = "connected" THEN "connected" ELSE "connecting"

-----------------------------------------------------------------------------
(* MqttClient's helpers *)

\* (mutant) the given options are dropped instead of merged
resetOptionsNoMerge(opts, o) == opts

\* resetOptions: { ...this.options, ...options } when options is given
resetOptions(opts, o) ==
    [opts EXCEPT
        !.retryCount = IF o.retryCount # KeepRetryCount THEN o.retryCount ELSE @,
        !.username = IF o.username # Absent THEN o.username ELSE @]

\* (mutant) the retry count is left as it is
resetConnectVariablesKeepCount ==
    [currentRetryCount |-> currentRetryCount, connectionStatus |-> CONNECTING]

\* resetConnectVariables
resetConnectVariables ==
    [currentRetryCount |-> 0, connectionStatus |-> CONNECTING]

\* (mutant) the pending timer is not cleared
clearTimeoutMissing(timers, handle) == timers

\* clearTimeout(this.retryTimer): the timer with that handle, if pending, is dropped
clearTimeout(timers, handle) == timers \ {handle}

\* setTimeout: a handle that differs from every pending one and from the one
\* stored in this.retryTimer (0 when the model's handles are used up)
setTimeout(timers, handle) ==
    LET free == (1..MaxTimerHandles) \ (timers \cup {handle})
    IN  IF free = {} THEN 0
        ELSE CHOOSE h \in free : \A g \in free : h <= g

\* the options object passed to MqttJSIModule.connectMqtt: x || default is
\* the default whenever x is undefined, 0, '' or false
connectArgs(opts) ==
    [keepAlive |-> IF \E k \in opts.keepAlive : k # 0
                   THEN CHOOSE k \in opts.keepAlive : TRUE ELSE 60,
     username |-> IF opts.username \notin {Absent, ""} THEN opts.username ELSE "",
     password |-> IF opts.password \notin {Absent, ""} THEN opts.password ELSE "",
     cleanSession |-> IF TRUE \in opts.cleanSession THEN TRUE ELSE TRUE]

\* this.options?.retryCount && this.currentRetryCount < this.options?.retryCount
shouldRetry(opts, cnt) == opts.retryCount # 0 /\ cnt < opts.retryCount

\* this.currentRetryCount ?? 1: the count is never null or undefined
backoffAttempt(cnt) == cnt

Delays(opts, cnt) ==
    getMqttBackoffTime(opts.backoffTime, backoffAttempt(cnt),
                       opts.maxBackoffTime, opts.jitter)

NoDelay == 0 - 1

\* (mutant) connection() without its test of the status
connectionUnguarded(st, cnt, opts, timers, d) ==
    LET cleared == clearTimeout(timers, retryTimer)
        h == setTimeout(cleared, retryTimer)
    IN  IF shouldRetry(opts, cnt)
        THEN [connects |-> 1, timer |-> h, pending |-> cleared \cup {h},
              native |-> connectMqtt(nativeStatus), delay |-> d,
              cleared |-> cleared # timers, args |-> connectArgs(opts),
              ok |-> h # 0]
        ELSE [connects |-> 1, timer |-> retryTimer, pending |-> cleared,
              native |-> connectMqtt(nativeStatus), delay |-> NoDelay,
              cleared |-> cleared # timers, args |-> connectArgs(opts),
              ok |-> TRUE]

\* connection(), run with status st, retry count cnt, options opts and pending
\* timers `timers`; d is the delay the Backoff Calculator returns
connection(st, cnt, opts, timers, d) ==
    IF st # CONNECTING
    THEN [connects |-> 0, timer |-> retryTimer, pending |-> timers,
          native |-> nativeStatus, delay |-> NoDelay, cleared |-> FALSE,
          args |-> NoArgs, ok |-> TRUE]
    ELSE LET cleared == clearTimeout(timers, retryTimer)
             h == setTimeout(cleared, retryTimer)
         IN  IF shouldRetry(opts, cnt)
             THEN [connects |-> 1, timer |-> h, pending |-> cleared \cup {h},
                   native |-> connectMqtt(nativeStatus), delay |-> d,
                   cleared |-> cleared # timers, args |-> connectArgs(opts),
                   ok |-> h # 0]
             ELSE [connects |-> 1, timer |-> retryTimer, pending |-> cleared,
                   native |-> connectMqtt(nativeStatus), delay |-> NoDelay,
                   cleared |-> cleared # timers, args |-> connectArgs(opts),
                   ok |-> TRUE]

\* disconnectType of setOnDisconnectCallback
disconnectType(st) ==
    IF st = DISCONNECTED THEN "forceDisconnected" ELSE "autoDisconnected"

\* the argument the autoReconnect handler passes to the reconnect interceptor
autoReconnectArg(reason, ack) == reason

\* the argument the retry timer's callback passes to the reconnect interceptor
retryArg(reason) == reason

-----------------------------------------------------------------------------
(* Event identifiers and Event Bus registrations.  A string is the         *)
(* sequence of its pieces; "#" is the separator the identifiers use, and a  *)
(* topic may contain it.                                                    *)

ClientId == <<"c">>
Topics == {<<"t">>, <<"t", "#", "1">>}
Qos == {0, 1}

RECURSIVE numberToString(_)
numberToString(n) ==
    IF n < 10
    THEN <<SubSeq(<<"0", "1", "2", "3", "4", "5", "6", "7", "8", "9">>, n + 1, n + 1)[1]>>
    ELSE numberToString(n \div 10) \o numberToString(n % 10)

\* getIdPrefix
getIdPrefix == <<"mqtt_client", "#">> \o ClientId

\* (mutant) the identifier without the tag
getMqttSubscribeEventIdNoTag(topic, qos, t) ==
    getIdPrefix \o <<"#", "subscribe_mqtt", "#">> \o topic \o <<"#">>
        \o numberToString(qos)

\* getMqttSubscribeEventId, t being the value of ++this.tag
getMqttSubscribeEventId(topic, qos, t) ==
    getIdPrefix \o <<"#", "subscribe_mqtt", "#">> \o topic \o <<"#">>
        \o numberToString(qos) \o <<"#">> \o numberToString(t)

\* MQTT_EVENTS (MqttClient.constants): the suffixes of the event names
CONNECTED_EVENT == <<"connected">>
DISCONNECTED_EVENT == <<"disconnected">>
SUBSCRIPTION_SUCCESS_EVENT == <<"subscribe_success">>
SUBSCRIPTION_FAILED_EVENT == <<"subscribe_failed">>

\* EventEmitter.addListener: one registration of handler cb for event id
Listener(id, sub, role) == [id |-> id, sub |-> sub, role |-> role]

\* the three registrations subscribe() makes for event identifier id; sub is
\* the number of the subscribe() call whose callbacks they hold
SubscriptionListeners(id, sub) ==
    {Listener(id, sub, "onEvent"),
     Listener(id \o SUBSCRIPTION_SUCCESS_EVENT, sub, "onSuccess"),
     Listener(id \o SUBSCRIPTION_FAILED_EVENT, sub, "onError")}

\* (mutant) only the message listener is removed
subscriptionRemoveMessageOnly(ls, h) == ls \ {Listener(h.id, h.sub, "onEvent")}

\* remove() of the handle subscribe() returned: listener.remove(),
\* success.remove(), failed.remove()
subscriptionRemove(ls, h) == ls \ SubscriptionListeners(h.id, h.sub)

\* EventEmitter.removeAllListeners(id)
removeAllListeners(ls, id) == {l \in ls : l.id # id}

\* the registrations the constructor and the application make before the
\* first connect(): the connected callback, the autoReconnect handler, and
\* the application's disconnect and connect-failure callbacks
InitialListeners(auto) ==
    {Listener(ClientId \o CONNECTED_EVENT, 0, "connected"),
     Listener(ClientId \o DISCONNECTED_EVENT, 0, "onDisconnect"),
     Listener(ClientId \o DISCONNECTED_EVENT, 0, "onConnectFailure")}
    \cup (IF auto THEN {Listener(ClientId \o DISCONNECTED_EVENT, 0, "autoReconnect")}
          ELSE {})

\* the name under which the transport emits event e of this client
EventName(e) ==
    ClientId \o (IF e.type = "CONNECTED" THEN CONNECTED_EVENT
                 ELSE DISCONNECTED_EVENT)

\* whether a listener is registered for event e
Heard(e) == \E l \in listeners : l.id = EventName(e)

\* what one subscription step did: the transport primitive it invoked and the
\* callbacks an emitted event reached
SubStep(op, transport, invoked) ==
    [op |-> op, transport |-> transport, invoked |-> invoked]

-----------------------------------------------------------------------------
(* The state after new MqttClient(clientId, host, port, options); the      *)
(* application registers its reconnect interceptor, if it has one, before   *)
(* it first connects.                                                       *)

InitialOptions ==
    {[retryCount |-> c.retryCount, backoffTime |-> 100,
      maxBackoffTime |-> c.cap, jitter |-> c.jitter, username |-> "u0",
      password |-> c.password, keepAlive |-> c.keepAlive,
      cleanSession |-> c.cleanSession] :
        c \in {[retryCount |-> 0, cap |-> 1000, jitter |-> FALSE,
                password |-> "p0", keepAlive |-> {30}, cleanSession |-> {FALSE}],
               [retryCount |-> MaxRetryCount, cap |-> 1000, jitter |-> FALSE,
                password |-> Absent, keepAlive |-> Unset, cleanSession |-> Unset],
               [retryCount |-> 1, cap |-> 50, jitter |-> TRUE,
                password |-> "p0", keepAlive |-> {30}, cleanSession |-> {TRUE}]}}

Init ==
    /\ options \in InitialOptions
    /\ autoReconnect \in BOOLEAN
    /\ connectionStatus = DISCONNECTED
    /\ currentRetryCount = 0
    /\ mqtt5DisconnectReasonCode = NoReason
    /\ retryTimer = 0
    /\ pendingTimers = {}
    /\ onReconnectIntercepter \in BOOLEAN
    /\ waits = EmptyBag
    /\ nativeStatus = "disconnected"
    /\ events = <<>>
    /\ last = Idle("new")
    /\ appLast = "none"
    /\ everConfirmed = FALSE
    /\ connectedHandled = FALSE
    /\ lastDisconnectReason = NoReason
    /\ scheduled = <<>>
    /\ chainConnects = 0
    /\ tag = 0
    /\ listeners = InitialListeners(autoReconnect)
    /\ handles = {}
    /\ removed = FALSE
    /\ eventIds = <<>>
    /\ subLast = SubStep("new", "createMqtt", {})

\* the effect of one run r of connection() on the timer and the transport
Apply(r) ==
    /\ r.ok
    /\ retryTimer' = r.timer
    /\ pendingTimers' = r.pending
    /\ nativeStatus' = r.native

\* history of the attempt in progress, kept while the transport has not confirmed
LogChain(r) ==
    /\ scheduled' = IF everConfirmed THEN <<>>
                    ELSE IF r.delay # NoDelay THEN Append(scheduled, r.delay)
                    ELSE scheduled
    /\ chainConnects' = IF everConfirmed THEN 0 ELSE chainConnects + r.connects

Wait(kind, ack, arg) == [kind |-> kind, ack |-> ack, arg |-> arg, stale |-> FALSE]

-----------------------------------------------------------------------------
(* Application calls *)

\* connect(options)
Connect(o) ==
    /\ ~removed
    /\ LET rv == resetConnectVariables
           opts == resetOptions(options, o)
       IN  \E d \in Delays(opts, rv.currentRetryCount) :
             LET r == connection(rv.connectionStatus, rv.currentRetryCount, opts,
                                 pendingTimers, d)
             IN  /\ Apply(r)
                 /\ last' = Last("connect", r, NotInvoked)
                 /\ currentRetryCount' = rv.currentRetryCount
                 /\ connectionStatus' = rv.connectionStatus
                 /\ options' = opts
                 /\ waits' = BagOfAll(LAMBDA w : [w EXCEPT !.stale = TRUE], waits)
                 /\ appLast' = "connect"
                 /\ connectedHandled' = FALSE
                 /\ scheduled' = IF everConfirmed \/ r.delay = NoDelay THEN <<>>
                                 ELSE <<r.delay>>
                 /\ chainConnects' = IF everConfirmed THEN 0 ELSE r.connects
                 /\ UNCHANGED <<autoReconnect, mqtt5DisconnectReasonCode,
                                onReconnectIntercepter, events, everConfirmed,
                                lastDisconnectReason>>
                 /\ UNCHANGED subscriptionVars

\* disconnect(); the transport reports the end of a session it had
Disconnect ==
    /\ ~removed
    /\ nativeStatus # "disconnected" => Len(events) < MaxEvents
    /\ connectionStatus' = DISCONNECTED
    /\ nativeStatus' = "disconnected"
    /\ \E x \in TransportReasons :
          events' = IF nativeStatus # "disconnected"
                    THEN Append(events, [type |-> "DISCONNECTED", reasonCode |-> x])
                    ELSE events
    /\ appLast' = "disconnect"
    /\ last' = Idle("disconnect")
    /\ UNCHANGED <<options, autoReconnect, currentRetryCount,
                   mqtt5DisconnectReasonCode, retryTimer, pendingTimers,
                   onReconnectIntercepter, waits, everConfirmed,
                   connectedHandled, lastDisconnectReason, scheduled,
                   chainConnects>>
    /\ UNCHANGED subscriptionVars

-----------------------------------------------------------------------------
(* The transport: it confirms or fails a connection attempt, or loses an    *)
(* established session, and emits the event for it.                         *)

TransportUnchanged ==
    /\ last' = Idle("transport")
    /\ UNCHANGED <<options, autoReconnect, connectionStatus, currentRetryCount,
                mqtt5DisconnectReasonCode, retryTimer, pendingTimers,
                onReconnectIntercepter, waits, appLast,
                connectedHandled, lastDisconnectReason>>
    /\ UNCHANGED subscriptionVars

NativeConnected ==
    /\ nativeStatus = "connecting"
    /\ Len(events) < MaxEvents
    /\ nativeStatus' = "connected"
    /\ events' = Append(events, [type |-> "CONNECTED", reasonCode |-> NoReason])
    /\ everConfirmed' = TRUE
    /\ scheduled' = <<>>
    /\ chainConnects' = 0
    /\ TransportUnchanged

NativeDisconnected(x) ==
    /\ nativeStatus \in {"connecting", "connected"}
    /\ Len(events) < MaxEvents
    /\ nativeStatus' = "disconnected"
    /\ events' = Append(events, [type |-> "DISCONNECTED", reasonCode |-> x])
    /\ UNCHANGED <<everConfirmed, scheduled, chainConnects>>
    /\ TransportUnchanged

-----------------------------------------------------------------------------
(* Event Bus deliveries to the session's listeners *)

HistoryUnchanged ==
    /\ UNCHANGED <<appLast, everConfirmed>>
    /\ UNCHANGED subscriptionVars

\* the listener of setOnConnectCallback registered by the constructor
DeliverConnected ==
    /\ events # <<>>
    /\ Head(events).type = "CONNECTED"
    /\ Heard(Head(events))
    /\ events' = Tail(events)
    /\ currentRetryCount' = 0
    /\ connectionStatus' = CONNECTED
    /\ mqtt5DisconnectReasonCode' = NoReason
    /\ connectedHandled' = TRUE
    /\ lastDisconnectReason' = NoReason
    /\ last' = Idle("connectedEvent")
    /\ HistoryUnchanged
    /\ UNCHANGED <<options, autoReconnect, retryTimer, pendingTimers,
                   onReconnectIntercepter, waits, nativeStatus,
                   scheduled, chainConnects>>

\* what a listener registered with setOnDisconnectCallback passes as
\* disconnectType when the status is st (NotInvoked: the callback is not called)
DisconnectCallback(st) ==
    IF st # CONNECTING THEN disconnectType(st) ELSE NotInvoked

\* (mutant) the connect-failure callback is called whatever the status
ConnectFailureCallbackAlways(st) == TRUE

\* whether a listener registered with setOnConnectFailureCallback calls its
\* callback when the status is st
ConnectFailureCallback(st) == st = CONNECTING

\* The listener onDisconnectInterceptor registers: callback(ack) in a try
\* block, callback({reasonCode: DEFAULT}) in its catch block.  calls is the
\* number of invocations of the application's handler, propagated whether the
\* listener itself throws.
onDisconnectInterceptor(thr) ==
    IF thr = "never" THEN [calls |-> 1, propagated |-> FALSE]
    ELSE IF thr = "first" THEN [calls |-> 2, propagated |-> FALSE]
    ELSE [calls |-> 2, propagated |-> TRUE]

\* the task that delivers a disconnect event, the status being st when it
\* arrives and the application's handlers behaving as thr; r is the run of
\* connection() in this task, if any
Delivered(r, st, thr) ==
    [Last("disconnectedEvent", r, DisconnectCallback(st)) EXCEPT
        !.failure = ConnectFailureCallback(st),
        !.calls = onDisconnectInterceptor(thr).calls,
        !.propagated = onDisconnectInterceptor(thr).propagated]

\* A DISCONNECTED event: the autoReconnect handler registered by the
\* constructor runs up to its await; the application's listeners, registered
\* after it, read the status as it was when the event arrived.
DeliverDisconnected ==
    /\ events # <<>>
    /\ Head(events).type = "DISCONNECTED"
    /\ Heard(Head(events))
    /\ events' = Tail(events)
    /\ lastDisconnectReason' = Head(events).reasonCode
    /\ HistoryUnchanged
    /\ UNCHANGED <<autoReconnect, onReconnectIntercepter, connectedHandled>>
    /\ \E thr \in Throws :
       LET ack == Head(events).reasonCode
           st == connectionStatus
       IN  IF ~autoReconnect
           THEN /\ last' = Delivered(NoCall, st, thr)
                /\ UNCHANGED <<options, connectionStatus, currentRetryCount,
                            mqtt5DisconnectReasonCode, retryTimer,
                            pendingTimers, waits, nativeStatus,
                            scheduled, chainConnects>>
           ELSE IF connectionStatus # CONNECTED
           THEN /\ mqtt5DisconnectReasonCode' = ack
                /\ last' = Delivered(NoCall, st, thr)
                /\ UNCHANGED <<options, connectionStatus, currentRetryCount,
                               retryTimer, pendingTimers, waits, nativeStatus,
                               scheduled, chainConnects>>
           ELSE IF onReconnectIntercepter
           THEN \* the interceptor is called; the handler awaits its promise
                /\ BagCardinality(waits) < MaxWaits
                /\ last' = Delivered(NoCall, st, thr)
                /\ waits' = waits (+) SetToBag({Wait("auto", ack,
                              autoReconnectArg(mqtt5DisconnectReasonCode, ack))})
                /\ UNCHANGED <<options, connectionStatus, currentRetryCount,
                               mqtt5DisconnectReasonCode, retryTimer,
                               pendingTimers, nativeStatus, scheduled, chainConnects>>
           ELSE \* await undefined: this.connect(undefined) in the same task
                LET rv == resetConnectVariables
                IN  \E d \in Delays(options, rv.currentRetryCount) :
                      LET r == connection(rv.connectionStatus,
                                          rv.currentRetryCount, options,
                                          pendingTimers, d)
                      IN  /\ Apply(r)
                          /\ last' = Delivered(r, st, thr)
                          /\ LogChain(r)
                          /\ currentRetryCount' = rv.currentRetryCount
                          /\ connectionStatus' = rv.connectionStatus
                          /\ mqtt5DisconnectReasonCode' = ack
                          /\ UNCHANGED <<options, waits>>

-----------------------------------------------------------------------------
(* The retry timer's callback, up to its await *)

TimerFires(t) ==
    /\ t \in pendingTimers
    /\ currentRetryCount' = currentRetryCount + 1
    /\ HistoryUnchanged
    /\ UNCHANGED <<options, autoReconnect, connectionStatus,
                   mqtt5DisconnectReasonCode, onReconnectIntercepter, events,
                   connectedHandled, lastDisconnectReason>>
    /\ IF nativeStatus = "connected"
       THEN /\ pendingTimers' = pendingTimers \ {t}
            /\ last' = Idle("timer")
            /\ UNCHANGED <<retryTimer, waits, nativeStatus, scheduled, chainConnects>>
       ELSE IF onReconnectIntercepter
       THEN /\ BagCardinality(waits) < MaxWaits
            /\ last' = Idle("timer")
            /\ pendingTimers' = pendingTimers \ {t}
            /\ waits' = waits (+) SetToBag({Wait("retry", NoReason,
                                            retryArg(mqtt5DisconnectReasonCode))})
            /\ UNCHANGED <<retryTimer, nativeStatus, scheduled, chainConnects>>
       ELSE \* await undefined: resetOptions(undefined); connection()
            \E d \in Delays(options, currentRetryCount + 1) :
              LET r == connection(connectionStatus, currentRetryCount + 1,
                                  options, pendingTimers \ {t}, d)
              IN  /\ Apply(r)
                  /\ last' = Last("timer", r, NotInvoked)
                  /\ LogChain(r)
                  /\ UNCHANGED waits

-----------------------------------------------------------------------------
(* The reconnect interceptor's promise resolves with o; the awaiting        *)
(* callback resumes.                                                        *)

ResolveWait(w, o) ==
    /\ BagIn(w, waits)
    /\ waits' = waits (-) SetToBag({w})
    /\ HistoryUnchanged
    /\ UNCHANGED <<autoReconnect, onReconnectIntercepter, events,
                   connectedHandled, lastDisconnectReason>>
    /\ IF w.kind = "retry"
       THEN \* resetOptions(newOptions); connection()
            LET opts == resetOptions(options, o)
            IN  \E d \in Delays(opts, currentRetryCount) :
                  LET r == connection(connectionStatus, currentRetryCount, opts,
                                      pendingTimers, d)
                  IN  /\ Apply(r)
                      /\ last' = Last("resolveRetry", r, NotInvoked)
                      /\ LogChain(r)
                      /\ options' = opts
                      /\ UNCHANGED <<connectionStatus, currentRetryCount,
                                     mqtt5DisconnectReasonCode>>
       ELSE \* this.connect(newOptions); then the reason code is stored
            LET rv == resetConnectVariables
                opts == resetOptions(options, o)
            IN  \E d \in Delays(opts, rv.currentRetryCount) :
                  LET r == connection(rv.connectionStatus, rv.currentRetryCount,
                                      opts, pendingTimers, d)
                  IN  /\ Apply(r)
                      /\ last' = Last("resolveAuto", r, NotInvoked)
                      /\ LogChain(r)
                      /\ options' = opts
                      /\ currentRetryCount' = rv.currentRetryCount
                      /\ connectionStatus' = rv.connectionStatus
                      /\ mqtt5DisconnectReasonCode' = w.ack

-----------------------------------------------------------------------------
(* Subscriptions *)

\* subscribe({topic, qos, onEvent, onSuccess, onError})
Subscribe(topic, qos) ==
    /\ tag < MaxSubscribes
    /\ LET eventId == getMqttSubscribeEventId(topic, qos, tag + 1)
       IN  /\ tag' = tag + 1
           /\ listeners' = listeners \cup SubscriptionListeners(eventId, tag + 1)
           /\ handles' = handles \cup {[id |-> eventId, sub |-> tag + 1]}
           /\ eventIds' = Append(eventIds, eventId)
           /\ subLast' = SubStep("subscribe", "subscribeMqtt", {})
    /\ UNCHANGED removed
    /\ UNCHANGED lifecycleVars

\* remove() of a subscription handle
RemoveSubscription(h) ==
    /\ h \in handles
    /\ listeners' = subscriptionRemove(listeners, h)
    /\ handles' = handles \ {h}
    /\ subLast' = SubStep("removeSubscription", "none", {})
    /\ UNCHANGED <<tag, removed, eventIds>>
    /\ UNCHANGED lifecycleVars

\* remove() of the session
Remove ==
    /\ ~removed
    /\ removed' = TRUE
    /\ listeners' = removeAllListeners(
                        removeAllListeners(listeners, ClientId \o DISCONNECTED_EVENT),
                        ClientId \o CONNECTED_EVENT)
    /\ subLast' = SubStep("remove", "removeMqtt", {})
    /\ UNCHANGED <<tag, handles, eventIds>>
    /\ UNCHANGED lifecycleVars

\* the transport emits an event of the subscription with identifier id
\* (a message, a success ack or a failure ack); the Event Bus delivers it to
\* the listeners registered under that name
EmitSubscriptionEvent(id, suffix) ==
    /\ subLast' = SubStep("emit", "none",
                          {[sub |-> l.sub, role |-> l.role] :
                              l \in {k \in listeners : k.id = id \o suffix}})
    /\ UNCHANGED <<tag, listeners, handles, removed, eventIds>>
    /\ UNCHANGED lifecycleVars

SubscriptionNext ==
    \/ \E topic \in Topics, qos \in Qos : Subscribe(topic, qos)
    \/ \E h \in handles : RemoveSubscription(h)
    \/ Remove
    \/ \E i \in 1..Len(eventIds),
          suffix \in {<<>>, SUBSCRIPTION_SUCCESS_EVENT, SUBSCRIPTION_FAILED_EVENT} :
            EmitSubscriptionEvent(eventIds[i], suffix)

\* a session that was constructed and not yet connected, with or without
\* autoReconnect
SubscriptionInit ==
    /\ Init
    /\ options.retryCount = 0
    /\ ~onReconnectIntercepter

\* subscriptions of a session whose connection is left alone
SubscriptionSpec == SubscriptionInit /\ [][SubscriptionNext]_vars

-----------------------------------------------------------------------------

Next ==
    \/ \E o \in ConnectOverrides : Connect(o)
    \/ Disconnect
    \/ NativeConnected
    \/ \E x \in TransportReasons : NativeDisconnected(x)
    \/ DeliverConnected
    \/ DeliverDisconnected
    \/ \E t \in pendingTimers : TimerFires(t)
    \/ \E w \in BagToSet(waits), o \in InterceptorResults : ResolveWait(w, o)

\* the connection of a session whose subscriptions are left alone
Spec == Init /\ [][Next]_vars

\* an event of the client for which no listener is registered any more
DeliverUnheard ==
    /\ events # <<>>
    /\ ~Heard(Head(events))
    /\ events' = Tail(events)
    /\ last' = Idle("unheardEvent")
    /\ UNCHANGED <<options, autoReconnect, connectionStatus, currentRetryCount,
                   mqtt5DisconnectReasonCode, retryTimer, pendingTimers,
                   onReconnectIntercepter, waits, nativeStatus, appLast,
                   everConfirmed, connectedHandled, lastDisconnectReason,
                   scheduled, chainConnects>>
    /\ UNCHANGED subscriptionVars

RemovalNext ==
    \/ Next
    \/ Remove
    \/ DeliverUnheard

\* the connection of a session that the application removes at some moment
\* and does not call afterwards
RemovalSpec == Init /\ [][RemovalNext]_vars

-----------------------------------------------------------------------------
(* Properties *)

\* the attempt that the application's last call, a connect(), started, while
\* the transport has never confirmed a connection
Unconfirmed == appLast = "connect" /\ ~everConfirmed

Quiet == pendingTimers = {} /\ waits = EmptyBag

\* C1: after connect() with retryCount = N > 0, the transport never
\* confirming and the application making no further call, at most N retry
\* timers are scheduled and connectMqtt is invoked at most N + 1 times, and
\* once no timer and no interceptor wait is left these numbers are exactly N
\* and N + 1.
C1_ExactlyNRetries ==
    (Unconfirmed /\ options.retryCount > 0) =>
        /\ Len(scheduled) <= options.retryCount
        /\ chainConnects <= options.retryCount + 1
        /\ Quiet => /\ Len(scheduled) = options.retryCount
                    /\ chainConnects = options.retryCount + 1

\* C1 restricted to a session without a reconnect interceptor (no interceptor
\* wait can be left over from an earlier attempt): the counts are exact.
RetryLoopWithoutInterceptor ==
    (Unconfirmed /\ options.retryCount > 0 /\ ~onReconnectIntercepter) =>
        /\ Len(scheduled) = Min2(chainConnects, options.retryCount)
        /\ chainConnects = currentRetryCount + 1
        /\ chainConnects <= options.retryCount + 1
        /\ Quiet => chainConnects = options.retryCount + 1

CapNotReached ==
    \A k \in 1..options.retryCount :
        options.backoffTime * Pow2(k - 1) <= options.maxBackoffTime

\* C2: with jitter disabled and the cap not reached, the k-th retry timer
\* scheduled after a connect() has delay backoffTime * 2^(k-1).
C2_DelaysDouble ==
    (Unconfirmed /\ ~onReconnectIntercepter /\ ~options.jitter /\ CapNotReached) =>
        \A k \in 1..Len(scheduled) :
            scheduled[k] = options.backoffTime * Pow2(k - 1)

\* C3: at most one retry timer is pending in every reachable state.
C3_AtMostOneTimer == Cardinality(pendingTimers) <= 1

C3_Witness ==
    /\ Cardinality(pendingTimers) = 1
    /\ waits # EmptyBag
    /\ events # <<>>

\* C4: a connect() called while a retry timer is pending returns with
\* currentRetryCount = 0 and status CONNECTING, the earlier timer cleared, and
\* no pending timer but the one the call scheduled.
C4_ConnectRestarts ==
    [][(last'.op = "connect" /\ pendingTimers # {}) =>
          /\ currentRetryCount' = 0
          /\ connectionStatus' = CONNECTING
          /\ last'.clearedTimer
          /\ pendingTimers' \cap pendingTimers = {}
          /\ pendingTimers' \subseteq {retryTimer'}
          /\ Cardinality(pendingTimers') <= 1]_vars

C4_Witness ==
    /\ last.op = "connect"
    /\ last.clearedTimer
    /\ pendingTimers = {retryTimer}
    /\ waits # EmptyBag

\* C5: once a CONNECTED event was handled, and until the application calls
\* connect() again, currentRetryCount is 0 and no retry timer is pending.
C5_ConnectedStopsRetries ==
    connectedHandled => (currentRetryCount = 0 /\ pendingTimers = {})

\* C6: after disconnect(), and until the application calls connect() again,
\* no step invokes connectMqtt and the status stays DISCONNECTED.
C6_DisconnectIsFinal ==
    [][(appLast = "disconnect" /\ appLast' = "disconnect") =>
          (last'.connectMqtt = 0 /\ connectionStatus' = DISCONNECTED)]_vars

\* C7: the resolution of a reconnect-interceptor call that a retry timer
\* started before the application's latest connect() changes neither the
\* options nor the retry timer and invokes no connectMqtt.
C7_StaleResolutionIsNoOp ==
    [][\A w \in BagToSet(waits) :
          (/\ w.kind = "retry"
           /\ w.stale
           /\ last'.op = "resolveRetry"
           /\ waits' = waits (-) SetToBag({w})) =>
              /\ options' = options
              /\ last'.connectMqtt = 0
              /\ pendingTimers' = pendingTimers
              /\ retryTimer' = retryTimer]_vars

\* C8: with autoReconnect, for a disconnect event with reason code X that
\* arrives while CONNECTED (the application having called connect() last), the
\* reconnect interceptor is invoked with X.
C8_InterceptorGetsEventReason ==
    \A w \in BagToSet(waits) :
        (w.kind = "auto" /\ ~w.stale /\ appLast = "connect") => w.arg = w.ack

\* C9: with autoReconnect, a disconnect event handled while CONNECTED starts
\* a reconnect-interceptor wait (or, without an interceptor, reconnects in the
\* same task), and the resolution of such a wait with options o merges o into
\* the options, sets the status to CONNECTING and the retry count to 0, and
\* invokes connectMqtt.
C9_AutoReconnectAlwaysReconnects ==
    [][/\ (last'.op = "disconnectedEvent" /\ autoReconnect
              /\ connectionStatus = CONNECTED) =>
            \/ \E w \in BagToSet(waits') :
                  /\ w.kind = "auto"
                  /\ waits' = waits (+) SetToBag({w})
            \/ /\ connectionStatus' = CONNECTING
               /\ currentRetryCount' = 0
               /\ last'.connectMqtt = 1
       /\ \A w \in BagToSet(waits), o \in InterceptorResults :
            (w.kind = "auto" /\ ResolveWait(w, o)) =>
                /\ options'.username =
                      IF o.username # Absent THEN o.username ELSE options.username
                /\ options'.retryCount = options.retryCount
                /\ connectionStatus' = CONNECTING
                /\ currentRetryCount' = 0
                /\ last'.connectMqtt = 1]_vars

C9_Witness ==
    /\ last.op = "resolveAuto"
    /\ last.connectMqtt = 1
    /\ options.retryCount = 0
    /\ options.username = "u1"
    /\ connectionStatus = CONNECTING

\* C10: a disconnect event that follows the application's disconnect() reaches
\* the setOnDisconnectCallback listener as forceDisconnected; one that arrives
\* while CONNECTED, the application's last call not being disconnect(), as
\* autoDisconnected.
C10_DisconnectTypes ==
    [][last'.op = "disconnectedEvent" =>
          /\ appLast = "disconnect" =>
                last'.disconnectType = "forceDisconnected"
          /\ (appLast # "disconnect" /\ connectionStatus = CONNECTED) =>
                last'.disconnectType = "autoDisconnected"]_vars

\* C11: a disconnect event is surfaced as exactly one variant: if the status
\* was CONNECTING when it arrived, the connect-failure callback is invoked and
\* the disconnect callback is not; otherwise the disconnect callback is invoked
\* and the connect-failure callback is not.
C11_ExactlyOneVariant ==
    [][last'.op = "disconnectedEvent" =>
          /\ connectionStatus = CONNECTING =>
                (last'.failure /\ last'.disconnectType = NotInvoked)
          /\ connectionStatus # CONNECTING =>
                (~last'.failure /\ last'.disconnectType # NotInvoked)]_vars

C11_Witness ==
    /\ last.op = "disconnectedEvent"
    /\ last.failure
    /\ last.disconnectType = NotInvoked
    /\ autoReconnect
    /\ connectionStatus = CONNECTING
    /\ pendingTimers # {}

\* two event identifiers that differ at most in their tag
SameTopicAndQos(a, b) ==
    /\ Len(a) = Len(b)
    /\ SubSeq(a, 1, Len(a) - 1) = SubSeq(b, 1, Len(b) - 1)

\* C12: remove() leaves no Event Bus listener of the session registered: the
\* connected and disconnected listeners and the three listeners of every
\* subscription whose handle was not removed are all deregistered.
C12_RemoveLeavesNoListener ==
    [][subLast'.op = "remove" => listeners' = {}]_vars

\* C13: the tag never decreases, every subscribe() increases it, and any two
\* subscribe() calls of a session produce different event identifiers.
C13_EventIdsDistinct ==
    [][/\ tag' >= tag
       /\ subLast'.op = "subscribe" =>
            /\ tag' > tag
            /\ \A i, j \in 1..Len(eventIds') :
                  i # j => eventIds'[i] # eventIds'[j]]_vars

C13_Witness ==
    /\ subLast.op = "subscribe"
    /\ Len(eventIds) = MaxSubscribes
    /\ Cardinality(handles) = 1
    /\ SameTopicAndQos(eventIds[1], eventIds[MaxSubscribes])
    /\ eventIds[1] # eventIds[MaxSubscribes]

Settled == events = <<>> /\ Quiet /\ nativeStatus # "connecting"

\* C15: once every pending event, retry timer and interceptor wait has
\* completed, the local status equals the status the transport reports.
C15_StatusConverges == Settled => connectionStatus = nativeStatus

\* C16: a retry timer that fires after the session handled a CONNECTED event
\* (and is still CONNECTED) invokes no interceptor, changes neither the options
\* nor currentRetryCount, invokes no connectMqtt and schedules no timer.
C16_TimerStopsSilently ==
    [][(connectedHandled /\ connectionStatus = CONNECTED /\ last'.op = "timer") =>
          /\ waits' = waits
          /\ options' = options
          /\ currentRetryCount' = currentRetryCount
          /\ last'.connectMqtt = 0
          /\ pendingTimers' \subseteq pendingTimers]_vars

\* C17: when the retry timer's callback invokes the reconnect interceptor
\* (the application having called connect() last), the argument is the reason
\* code of the last disconnect event the session handled since its last
\* CONNECTED event (none if there was no such event).
C17_RetryGetsLastReason ==
    [][\A w \in BagToSet(waits') :
          (/\ last'.op = "timer"
           /\ appLast = "connect"
           /\ waits' = waits (+) SetToBag({w})) =>
              w.arg = lastDisconnectReason]_vars

\* C18: the status changes only DISCONNECTED -> CONNECTING -> CONNECTED ->
\* DISCONNECTED, CONNECTING -> DISCONNECTED, or into CONNECTING; never from
\* DISCONNECTED to CONNECTED.
C18_LifecycleOrder ==
    [][connectionStatus' # connectionStatus =>
          <<connectionStatus, connectionStatus'>> \in
              {<<DISCONNECTED, CONNECTING>>, <<CONNECTING, CONNECTED>>,
               <<CONNECTED, DISCONNECTED>>, <<CONNECTING, DISCONNECTED>>,
               <<CONNECTED, CONNECTING>>}]_vars

\* C19: when an application handler throws during the delivery of a disconnect
\* event (it is then invoked a second time, with the default reason code), the
\* exception does not leave the session's listener, and unless the autoReconnect
\* handler reconnects for this event, the status, the retry count and the retry
\* timer stay as they were.
C19_HandlerExceptionContained ==
    [][(last'.op = "disconnectedEvent" /\ last'.calls > 1) =>
          /\ ~last'.propagated
          /\ (~autoReconnect \/ connectionStatus # CONNECTED) =>
                /\ connectionStatus' = connectionStatus
                /\ currentRetryCount' = currentRetryCount
                /\ retryTimer' = retryTimer
                /\ pendingTimers' = pendingTimers]_vars

\* C20: every connectMqtt invocation carries the session's current options:
\* keepAlive, username, password and cleanSession as last set, and the default
\* (60, '', '', true) only for an option never set.
C20_ConnectCarriesOptions ==
    [][last'.connectMqtt = 1 =>
          /\ last'.args.keepAlive =
                IF options'.keepAlive = Unset THEN 60
                ELSE CHOOSE k \in options'.keepAlive : TRUE
          /\ last'.args.username =
                IF options'.username = Absent THEN "" ELSE options'.username
          /\ last'.args.password =
                IF options'.password = Absent THEN "" ELSE options'.password
          /\ last'.args.cleanSession =
                IF options'.cleanSession = Unset THEN TRUE
                ELSE CHOOSE c \in options'.cleanSession : TRUE]_vars

\* C21: after remove() no step invokes connectMqtt and no step schedules a
\* retry timer, also when a timer was pending or an interceptor wait was in
\* flight at the time of the call.
C21_RemovedSessionIsSilent ==
    [][removed =>
          /\ last'.connectMqtt = 0
          /\ pendingTimers' \subseteq pendingTimers]_vars

\* C22: in every step that invokes connectMqtt the local status is CONNECTING
\* when the primitive is invoked (it was CONNECTING before the step, or the
\* step is a connect() that has just set it), and it is CONNECTING after it.
C22_ConnectOnlyWhileConnecting ==
    [][last'.connectMqtt = 1 =>
          /\ connectionStatus' = CONNECTING
          /\ \/ connectionStatus = CONNECTING
             \/ last'.op \in {"connect", "disconnectedEvent", "resolveAuto"}]_vars

C22_Witness ==
    /\ last.op = "resolveRetry"
    /\ last.connectMqtt = 1
    /\ connectionStatus = CONNECTING
    /\ appLast = "connect"
    /\ everConfirmed
    /\ events # <<>>

====
